---- MODULE Spec2Model ----
(***************************************************************************)
(* Model of grand_trade_auto: the configuration helpers of                 *)
(* general/config.py (cast_var, parse_list_from_conf_string,               *)
(* get_matching_secrets_id, read_conf_file, read_conf_file_fake_header)    *)
(* the matching contract of database/database_meta.py                     *)
(* (Database.matches_id_criteria), and the adapters' load_from_config,     *)
(* create_db, drop_db and check_if_db_exists.                              *)
(*                                                                         *)
(* Python strings are modelled as sequences of one-character strings, so   *)
(* that str.strip, str.lower, str.split, int() and float() are computed    *)
(* character by character as the interpreter computes them.                *)
(***************************************************************************)
EXTENDS Integers, Sequences, FiniteSets, TLC

(***************************************************************************)
(* Bounds of the model.                                                    *)
(***************************************************************************)
MaxStrLen == 3
MaxTokens == 2
MaxSections == 2
MaxLines == 3

(***************************************************************************)
(* Python values.  Every value is a record of one shape, so that any two   *)
(* values can be compared: t is the Python type, s the characters of a     *)
(* str (or the name of a float special), n an int or the mantissa of a     *)
(* float, d the number of decimal places of a float (value = n / 10^d).    *)
(***************************************************************************)
PyNone == [t |-> "NoneType", s |-> <<>>, n |-> 0, d |-> 0]
PyStr(chars) == [t |-> "str", s |-> chars, n |-> 0, d |-> 0]
PyBool(b) == [t |-> "bool", s |-> <<>>, n |-> IF b THEN 1 ELSE 0, d |-> 0]
PyInt(i) == [t |-> "int", s |-> <<>>, n |-> i, d |-> 0]
PyFloat(mant, places) == [t |-> "float", s |-> <<>>, n |-> mant, d |-> places]
PyFloatSpecial(name, sign) == [t |-> "float", s |-> <<name>>, n |-> sign, d |-> 0]

(***************************************************************************)
(* Outcome of a call: a returned value, or a raised exception.             *)
(***************************************************************************)
Return(v) == [kind |-> "return", val |-> v, exc |-> "none"]
Raise(e) == [kind |-> "raise", val |-> PyNone, exc |-> e]
NoCall == [kind |-> "idle", val |-> PyNone, exc |-> "none"]

(***************************************************************************)
(* Characters.                                                             *)
(***************************************************************************)
Whitespace == {" ", "\t", "\n", "\r"}
Digits == {"0", "1", "2", "3", "4", "5", "6", "7", "8", "9"}
UpperChars == <<"A", "B", "C", "D", "E", "F", "G", "H", "I", "J", "K", "L", "M",
                "N", "O", "P", "Q", "R", "S", "T", "U", "V", "W", "X", "Y", "Z">>
LowerChars == <<"a", "b", "c", "d", "e", "f", "g", "h", "i", "j", "k", "l", "m",
                "n", "o", "p", "q", "r", "s", "t", "u", "v", "w", "x", "y", "z">>

DigitVal(c) ==
    CASE c = "0" -> 0 [] c = "1" -> 1 [] c = "2" -> 2 [] c = "3" -> 3
      [] c = "4" -> 4 [] c = "5" -> 5 [] c = "6" -> 6 [] c = "7" -> 7
      [] c = "8" -> 8 [] c = "9" -> 9

LowerChar(c) ==
    IF \E i \in 1..26 : UpperChars[i] = c
    THEN LowerChars[CHOOSE i \in 1..26 : UpperChars[i] = c]
    ELSE c

(***************************************************************************)
(* str.lower(), str.strip(), str.strip(chars), str.split(sep).             *)
(***************************************************************************)
Lower(str) == [i \in 1..Len(str) |-> LowerChar(str[i])]

StripChars(str, chars) ==
    LET keep == {i \in 1..Len(str) : str[i] \notin chars}
    IN  IF keep = {} THEN <<>>
        ELSE LET lo == CHOOSE i \in keep : \A j \in keep : i <= j
                 hi == CHOOSE i \in keep : \A j \in keep : j <= i
             IN  SubSeq(str, lo, hi)

Strip(str) == StripChars(str, Whitespace)

StartsWithAt(str, sep, i) ==
    /\ i + Len(sep) - 1 <= Len(str)
    /\ \A k \in 1..Len(sep) : str[i + k - 1] = sep[k]

RECURSIVE SplitFrom(_, _, _, _)
\* i scans str, start is where the current part began; the separator is
\* matched leftmost-first and matches do not overlap.
SplitFrom(str, sep, start, i) ==
    IF i > Len(str)
    THEN <<SubSeq(str, start, Len(str))>>
    ELSE IF StartsWithAt(str, sep, i)
         THEN <<SubSeq(str, start, i - 1)>>
                  \o SplitFrom(str, sep, i + Len(sep), i + Len(sep))
         ELSE SplitFrom(str, sep, start, i + 1)

Split(str, sep) == SplitFrom(str, sep, 1, 1)

RECURSIVE Join(_, _)
Join(parts, sep) ==
    IF Len(parts) = 0 THEN <<>>
    ELSE IF Len(parts) = 1 THEN parts[1]
    ELSE parts[1] \o sep \o Join(Tail(parts), sep)

(***************************************************************************)
(* int(str) and float(str).                                                *)
(***************************************************************************)
\* A digitpart: digits, with single underscores allowed between digits.
IsDigitPart(str) ==
    /\ Len(str) > 0
    /\ str[1] \in Digits
    /\ str[Len(str)] \in Digits
    /\ \A i \in 1..Len(str) : str[i] \in Digits \cup {"_"}
    /\ \A i \in 1..(Len(str) - 1) : ~(str[i] = "_" /\ str[i + 1] = "_")

RECURSIVE DigitsValue(_, _)
DigitsValue(str, acc) ==
    IF Len(str) = 0 THEN acc
    ELSE IF str[1] = "_" THEN DigitsValue(Tail(str), acc)
    ELSE DigitsValue(Tail(str), 10 * acc + DigitVal(str[1]))

RECURSIVE CountDigits(_)
CountDigits(str) ==
    IF Len(str) = 0 THEN 0
    ELSE (IF str[1] = "_" THEN 0 ELSE 1) + CountDigits(Tail(str))

HasSign(str) == Len(str) > 0 /\ str[1] \in {"+", "-"}
SignOf(str) == IF Len(str) > 0 /\ str[1] = "-" THEN -1 ELSE 1
Unsigned(str) == IF HasSign(str) THEN Tail(str) ELSE str

int(var) ==
    IF var.t = "NoneType" THEN Raise("TypeError")
    ELSE LET body == Unsigned(Strip(var.s))
         IN  IF IsDigitPart(body)
             THEN Return(PyInt(SignOf(Strip(var.s)) * DigitsValue(body, 0)))
             ELSE Raise("ValueError")

RECURSIVE Normalize(_, _)
\* the same number with no trailing zero in its decimal places
Normalize(mant, places) ==
    IF mant = 0 THEN <<0, 0>>
    ELSE IF places > 0 /\ mant % 10 = 0 THEN Normalize(mant \div 10, places - 1)
    ELSE <<mant, places>>

RECURSIVE Pow10(_)
Pow10(k) == IF k <= 0 THEN 1 ELSE 10 * Pow10(k - 1)

\* position of the exponent marker, 0 if there is none
ExpPos(str) ==
    IF \E i \in 1..Len(str) : str[i] \in {"e", "E"}
    THEN CHOOSE i \in 1..Len(str) :
            /\ str[i] \in {"e", "E"}
            /\ \A j \in 1..(i - 1) : str[j] \notin {"e", "E"}
    ELSE 0

\* position of the decimal point, 0 if there is none
DotPos(str) ==
    IF \E i \in 1..Len(str) : str[i] = "."
    THEN CHOOSE i \in 1..Len(str) :
            str[i] = "." /\ \A j \in 1..(i - 1) : str[j] # "."
    ELSE 0

\* pointfloat or digitpart: the digits before and after the point
IsDecimal(str) ==
    LET p == DotPos(str)
        whole == IF p = 0 THEN str ELSE SubSeq(str, 1, p - 1)
        frac == IF p = 0 THEN <<>> ELSE SubSeq(str, p + 1, Len(str))
    IN  /\ whole # <<>> \/ frac # <<>>
        /\ whole = <<>> \/ IsDigitPart(whole)
        /\ frac = <<>> \/ IsDigitPart(frac)

IsExponent(str) == IsDigitPart(Unsigned(str))

float(var) ==
    IF var.t = "NoneType" THEN Raise("TypeError")
    ELSE LET stripped == Strip(var.s)
             sign == SignOf(stripped)
             body == Unsigned(stripped)
             e == ExpPos(body)
             dec == IF e = 0 THEN body ELSE SubSeq(body, 1, e - 1)
             ex == IF e = 0 THEN <<>> ELSE SubSeq(body, e + 1, Len(body))
             p == DotPos(dec)
             whole == IF p = 0 THEN dec ELSE SubSeq(dec, 1, p - 1)
             frac == IF p = 0 THEN <<>> ELSE SubSeq(dec, p + 1, Len(dec))
             mant == DigitsValue(whole \o frac, 0)
             exval == IF e = 0 THEN 0 ELSE SignOf(ex) * DigitsValue(Unsigned(ex), 0)
             places == CountDigits(frac) - exval
             norm == IF places >= 0 THEN Normalize(mant, places)
                     ELSE <<mant * Pow10(0 - places), 0>>
         IN  IF Lower(body) \in {<<"i", "n", "f">>,
                                 <<"i", "n", "f", "i", "n", "i", "t", "y">>}
             THEN Return(PyFloatSpecial("inf", sign))
             ELSE IF Lower(body) = <<"n", "a", "n">>
             THEN Return(PyFloatSpecial("nan", 0))
             ELSE IF IsDecimal(dec) /\ (e = 0 \/ IsExponent(ex))
             THEN Return(PyFloat(sign * norm[1], norm[2]))
             ELSE Raise("ValueError")

\* str(var): a str is returned as it is, None becomes the text "None"
str(var) ==
    IF var.t = "NoneType" THEN Return(PyStr(<<"N", "o", "n", "e">>))
    ELSE Return(var)

(***************************************************************************)
(* CastType and cast_var.  NotACastType stands for any value that is not a  *)
(* member of the CastType enumeration.                                     *)
(***************************************************************************)
CastType_INT == "int"
CastType_FLOAT == "float"
CastType_STRING == "string"
NotACastType == "invalid-cast-type"
CastType == {CastType_INT, CastType_FLOAT, CastType_STRING}
CastTypeArgs == CastType \cup {NotACastType}

\* the body of the try block of cast_var
CastAttempt(var, cast_type) ==
    IF cast_type = CastType_INT THEN int(var)
    ELSE IF cast_type = CastType_FLOAT THEN float(var)
    ELSE IF cast_type = CastType_STRING THEN str(var)
    ELSE Raise("TypeError")

\* cast_var whose except clause re-raises whatever the flag says
cast_var_IgnoresFallback(var, cast_type, fallback_to_original) ==
    CastAttempt(var, cast_type)

cast_var(var, cast_type, fallback_to_original) ==
    LET attempt == CastAttempt(var, cast_type)
    IN  IF attempt.kind = "raise" /\ attempt.exc \in {"TypeError", "ValueError"}
        THEN IF fallback_to_original THEN Return(var) ELSE attempt
        ELSE attempt

(***************************************************************************)
(* Database.matches_id_criteria.  An instance holds _env and _cp_db_id;    *)
(* its type names are those of its concrete class.  Ids, environments and  *)
(* type names are opaque strings; None is distinct from all of them.       *)
(***************************************************************************)
None == "<None>"

\* BrokerAlpaca.get_type_names()
BrokerAlpaca_get_type_names == {"alpaca", "apca"}
\* DatabasePostgres.get_type_names(), as its unit test pins it down
DatabasePostgres_get_type_names == {"postgres"}

matches_id_criteria_NoTypeCheck(self, db_id, env, db_type) ==
    IF db_id = None THEN Raise("AssertionError")
    ELSE IF db_id # self.cp_db_id THEN Return(PyBool(FALSE))
    ELSE IF env # None /\ env # self.env THEN Return(PyBool(FALSE))
    ELSE Return(PyBool(TRUE))

matches_id_criteria_NoAssert(self, db_id, env, db_type) ==
    IF db_id # self.cp_db_id THEN Return(PyBool(FALSE))
    ELSE IF env # None /\ env # self.env THEN Return(PyBool(FALSE))
    ELSE IF db_type # None /\ db_type \notin self.type_names
    THEN Return(PyBool(FALSE))
    ELSE Return(PyBool(TRUE))

matches_id_criteria(self, db_id, env, db_type) ==
    IF db_id = None THEN Raise("AssertionError")
    ELSE IF db_id # self.cp_db_id THEN Return(PyBool(FALSE))
    ELSE IF env # None /\ env # self.env THEN Return(PyBool(FALSE))
    ELSE IF db_type # None /\ db_type \notin self.type_names
    THEN Return(PyBool(FALSE))
    ELSE Return(PyBool(TRUE))

(***************************************************************************)
(* get_matching_secrets_id.  Iterating a ConfigParser yields its default   *)
(* section name first and then the section names in file order.            *)
(***************************************************************************)
DefaultSection == <<"D", "E", "F", "A", "U", "L", "T">>
SecretsSeparator == <<":", ":">>

SectionNames(secrets_cp) == <<DefaultSection>> \o secrets_cp

\* the comparison of lines 102-103
SecretsIdMatches_CaseSensitive(submod_found, id_found, submod, main_id) ==
    /\ Strip(submod_found) = Strip(submod)
    /\ Strip(id_found) = Strip(main_id)

SecretsIdMatches(submod_found, id_found, submod, main_id) ==
    /\ Lower(Strip(submod_found)) = Lower(Strip(submod))
    /\ Lower(Strip(id_found)) = Lower(Strip(main_id))

Continue == [kind |-> "continue", val |-> PyNone, exc |-> "none"]

\* one iteration of the for loop without its except clause
TrySection_NoExcept(secrets_section_name, submod, main_id) ==
    LET parts == Split(secrets_section_name, SecretsSeparator)
    IN  IF Len(parts) # 2 THEN Raise("ValueError")
        ELSE IF SecretsIdMatches(parts[1], parts[2], submod, main_id)
        THEN Return(PyStr(secrets_section_name))
        ELSE Continue

\* one iteration of the for loop that returns the name it compared
TrySection_ReturnsNormalized(secrets_section_name, submod, main_id) ==
    LET parts == Split(secrets_section_name, SecretsSeparator)
    IN  IF Len(parts) # 2 THEN Continue
        ELSE IF SecretsIdMatches(parts[1], parts[2], submod, main_id)
        THEN Return(PyStr(Lower(Strip(parts[1])) \o SecretsSeparator
                              \o Lower(Strip(parts[2]))))
        ELSE Continue

\* one iteration of the for loop: the try body, and the except clause that
\* turns the ValueError of a failed two-name unpacking into a continue
TrySection(secrets_section_name, submod, main_id) ==
    LET parts == Split(secrets_section_name, SecretsSeparator)
    IN  IF Len(parts) # 2 THEN Continue
        ELSE IF SecretsIdMatches(parts[1], parts[2], submod, main_id)
        THEN Return(PyStr(secrets_section_name))
        ELSE Continue

(***************************************************************************)
(* parse_list_from_conf_string.                                            *)
(***************************************************************************)
QuoteChars == {"'", "\""}

\* `if conf_str is None`
IsFalsy_OnlyNone(conf_str) == conf_str.t = "NoneType"

\* `not conf_str`: None and the empty string
IsFalsy(conf_str) ==
    \/ conf_str.t = "NoneType"
    \/ conf_str.t = "str" /\ Len(conf_str.s) = 0

\* strips a quote character only where the same one closes the token
StripQuotes_OneLayer(val) ==
    LET v == Strip(val)
    IN  IF Len(v) >= 2 /\ v[1] \in QuoteChars /\ v[Len(v)] = v[1]
        THEN SubSeq(v, 2, Len(v) - 1)
        ELSE v

\* val.strip().strip('\'"')
StripQuotes(val) == StripChars(Strip(val), QuoteChars)

\* the loop body with a cast that falls back to the original token
ParseElement_FallsBack(list, val, val_type, strip_quotes) ==
    LET v == IF strip_quotes THEN StripQuotes(val) ELSE val
        cast == cast_var(PyStr(Strip(v)), val_type, TRUE)
    IN  IF cast.kind = "return" THEN Append(list, cast.val) ELSE list

\* the loop body with blank elements passed over
ParseElement_SkipsBlank(list, val, val_type, strip_quotes) ==
    LET v == IF strip_quotes THEN StripQuotes(val) ELSE val
        cast == cast_var(PyStr(Strip(v)), val_type, FALSE)
    IN  IF Len(Strip(v)) = 0 THEN list
        ELSE IF cast.kind = "return" THEN Append(list, cast.val) ELSE list

\* the loop body: list_out after the element val, which is appended when
\* its cast returns and left out when the cast raises ValueError or TypeError
ParseElement(list, val, val_type, strip_quotes) ==
    LET v == IF strip_quotes THEN StripQuotes(val) ELSE val
        cast == cast_var(PyStr(Strip(v)), val_type, FALSE)
    IN  IF cast.kind = "return" THEN Append(list, cast.val) ELSE list

\* the list a call returns is held in list_out
PyListOut == [t |-> "list", s |-> <<>>, n |-> 0, d |-> 0]
Running == [kind |-> "running", val |-> PyNone, exc |-> "none"]

(***************************************************************************)
(* read_conf_file and read_conf_file_fake_header.  A file is a sequence of *)
(* lines, each a section header, an option, a blank or comment line, or a  *)
(* line that is none of these.  ConfigParser is used with its defaults     *)
(* (strict).                                                               *)
(***************************************************************************)
Header(name) == [kind |-> "header", name |-> name, value |-> "none"]
Option(key, value) == [kind |-> "option", name |-> key, value |-> value]
Blank == [kind |-> "blank", name |-> "none", value |-> "none"]
Junk == [kind |-> "junk", name |-> "none", value |-> "none"]

NoSect == 0 - 1
DefaultSect == 0

ReturnParser(sections, defaults) ==
    [kind |-> "return", exc |-> "none", sections |-> sections,
     defaults |-> defaults]
RaiseRead(e) ==
    [kind |-> "raise", exc |-> e, sections |-> <<>>, defaults |-> <<>>]
NoRead == [kind |-> "idle", exc |-> "none", sections |-> <<>>, defaults |-> <<>>]

HasKey(opts, key) == \E i \in 1..Len(opts) : opts[i][1] = key
SectIndex(sections, name) ==
    IF \E i \in 1..Len(sections) : sections[i].name = name
    THEN CHOOSE i \in 1..Len(sections) : sections[i].name = name
    ELSE 0

RECURSIVE ReadLines(_, _, _, _, _)
\* ConfigParser._read: sections and defaults read so far, cursect the section
\* options go to, junk whether a ParsingError is pending
ReadLines(lines, sections, defaults, cursect, junk) ==
    IF Len(lines) = 0
    THEN IF junk THEN RaiseRead("ParsingError")
         ELSE ReturnParser(sections, defaults)
    ELSE LET line == lines[1]
             rest == Tail(lines)
         IN  IF line.kind = "blank"
             THEN ReadLines(rest, sections, defaults, cursect, junk)
             ELSE IF line.kind = "header"
             THEN IF SectIndex(sections, line.name) # 0
                  THEN RaiseRead("DuplicateSectionError")
                  ELSE IF line.name = "DEFAULT"
                  THEN ReadLines(rest, sections, defaults, DefaultSect, junk)
                  ELSE ReadLines(rest,
                                 Append(sections, [name |-> line.name, opts |-> <<>>]),
                                 defaults, Len(sections) + 1, junk)
             ELSE IF cursect = NoSect
             THEN RaiseRead("MissingSectionHeaderError")
             ELSE IF line.kind = "junk"
             THEN ReadLines(rest, sections, defaults, cursect, TRUE)
             ELSE LET opts == IF cursect = DefaultSect THEN defaults
                              ELSE sections[cursect].opts
                      added == Append(opts, <<line.name, line.value>>)
                  IN  IF HasKey(opts, line.name)
                      THEN RaiseRead("DuplicateOptionError")
                      ELSE IF cursect = DefaultSect
                      THEN ReadLines(rest, sections, added, cursect, junk)
                      ELSE ReadLines(rest,
                                     [sections EXCEPT ![cursect].opts = added],
                                     defaults, cursect, junk)

\* parser.read(conf_file): a file that cannot be opened is passed over
read_conf_file(file) ==
    IF ~file.exists THEN ReturnParser(<<>>, <<>>)
    ELSE ReadLines(file.lines, <<>>, <<>>, NoSect, FALSE)

\* open(conf_file) and parser.read_file(chain(['[' + fake + ']'], file))
read_conf_file_fake_header(file, fake_section) ==
    IF ~file.exists THEN RaiseRead("FileNotFoundError")
    ELSE ReadLines(<<Header(fake_section)>> \o file.lines, <<>>, <<>>,
                   NoSect, FALSE)

(***************************************************************************)
(* Adapters: BrokerAlpaca and the Database classes.  An adapter instance   *)
(* is a record of the attributes its constructor sets; an attribute the    *)
(* constructor does not set is None.  database is the name of the database *)
(* a Database instance opens.                                              *)
(***************************************************************************)
NoAdapter ==
    [kind |-> "none", env |-> None, cp_db_id |-> None, cp_secrets_id |-> None,
     database |-> None, type_names |-> {}]

\* BrokerAlpaca(): the constructor takes no argument and sets no attribute
BrokerAlpaca_init ==
    [kind |-> "broker", env |-> None, cp_db_id |-> None, cp_secrets_id |-> None,
     database |-> None, type_names |-> BrokerAlpaca_get_type_names]

\* BrokerAlpaca.load_from_config: kwargs stays empty, whatever broker_id and
\* secrets_id are
BrokerAlpaca_load_from_config(broker_id, secrets_id) == BrokerAlpaca_init

\* Database.__init__ of a DatabasePostgres
Database_init(env, cp_db_id, cp_secrets_id, database) ==
    [kind |-> "database", env |-> env, cp_db_id |-> cp_db_id,
     cp_secrets_id |-> cp_secrets_id, database |-> database,
     type_names |-> DatabasePostgres_get_type_names]

\* DatabasePostgres.load_from_config: the section's env and database, and the
\* two ids it is given, go to the constructor
DatabasePostgres_load_from_config(section, db_id, secrets_id) ==
    Database_init(section.env, db_id, secrets_id, section.database)

\* DatabasePostgres.check_if_db_exists on a server holding the databases
check_if_db_exists(self, databases) == self.database \in databases

\* create_db that always issues the CREATE DATABASE
create_db_NoSkip(self, databases) ==
    IF check_if_db_exists(self, databases)
    THEN [databases |-> databases, created |-> FALSE,
          ret |-> Raise("ProgrammingError")]
    ELSE [databases |-> databases \cup {self.database}, created |-> TRUE,
          ret |-> Return(PyNone)]

\* DatabasePostgres.create_db: creates the database, skips when it exists
create_db(self, databases) ==
    IF check_if_db_exists(self, databases)
    THEN [databases |-> databases, created |-> FALSE, ret |-> Return(PyNone)]
    ELSE [databases |-> databases \cup {self.database}, created |-> TRUE,
          ret |-> Return(PyNone)]

\* DatabasePostgres.drop_db: drops the database, also when there is none
drop_db(self, databases) ==
    [databases |-> databases \ {self.database}, created |-> FALSE,
     ret |-> Return(PyNone)]

(***************************************************************************)
(* State.                                                                  *)
(***************************************************************************)
VARIABLES
    cast_args,      \* arguments of the call of cast_var
    cast_ret,       \* its outcome
    db,             \* the Database instance: _env, _cp_db_id, type names
    match_args,     \* arguments of the call of matches_id_criteria
    match_ret,      \* its outcome
    secrets_args,   \* arguments of the call of get_matching_secrets_id
    secrets_i,      \* number of section names the for loop has taken
    secrets_ret,    \* its outcome
    parse_args,     \* arguments of the call of parse_list_from_conf_string
    val_raw_list,   \* its val_raw_list
    parse_i,        \* number of elements of val_raw_list its loop has taken
    list_out,       \* its list_out
    parse_ret,      \* its outcome
    conf_file,      \* the file at conf_base_dir/conf_rel_file
    read_args,      \* which read function is called, and its fake_section
    read_ret,       \* its outcome
    load_args,      \* the adapter class load_from_config is called on, the
                    \* config section, its id and the secrets id
    adapter,        \* the instance load_from_config returned
    load_ret,       \* its outcome
    pg_databases,   \* the databases the server holds
    db_call         \* the last call on the database adapter

cast_vars == <<cast_args, cast_ret>>
match_vars == <<db, match_args, match_ret>>
secrets_vars == <<secrets_args, secrets_i, secrets_ret>>
parse_vars == <<parse_args, val_raw_list, parse_i, list_out, parse_ret>>
read_vars == <<conf_file, read_args, read_ret>>

adapter_vars == <<load_args, adapter, load_ret, pg_databases, db_call>>

vars == <<cast_vars, match_vars, secrets_vars, parse_vars, read_vars,
          adapter_vars>>

RECURSIVE StringsUpTo(_, _)
\* all strings of at most k characters of the alphabet
StringsUpTo(alphabet, k) ==
    IF k = 0 THEN {<<>>}
    ELSE LET shorter == StringsUpTo(alphabet, k - 1)
         IN  shorter \cup {Append(w, c) : w \in shorter, c \in alphabet}

\* all sequences of at most k distinct elements of the set
RECURSIVE DistinctSeqsUpTo(_, _)
DistinctSeqsUpTo(set, k) ==
    IF k = 0 THEN {<<>>}
    ELSE LET shorter == DistinctSeqsUpTo(set, k - 1)
         IN  shorter \cup
             UNION {{Append(q, x) : x \in set \ {q[i] : i \in 1..Len(q)}} :
                    q \in shorter}

(***************************************************************************)
(* No call in progress: the state of a component a specification does not  *)
(* exercise.                                                               *)
(***************************************************************************)
IdleCast ==
    /\ cast_args = [var |-> PyNone, cast_type |-> NotACastType,
                    fallback_to_original |-> FALSE]
    /\ cast_ret = NoCall

IdleMatch ==
    /\ db = [env |-> None, cp_db_id |-> None, type_names |-> {}]
    /\ match_args = [db_id |-> None, env |-> None, db_type |-> None]
    /\ match_ret = NoCall

IdleSecrets ==
    /\ secrets_args = [secrets_cp |-> <<>>, submod |-> <<>>, main_id |-> <<>>]
    /\ secrets_i = 0
    /\ secrets_ret = NoCall

IdleParse ==
    /\ parse_args = [conf_str |-> PyNone, val_type |-> NotACastType,
                     delim |-> <<>>, strip_quotes |-> FALSE]
    /\ val_raw_list = <<>>
    /\ parse_i = 0
    /\ list_out = <<>>
    /\ parse_ret = NoCall

IdleRead ==
    /\ conf_file = [exists |-> FALSE, lines |-> <<>>]
    /\ read_args = [fn |-> "read_conf_file", fake_section |-> "fake"]
    /\ read_ret = NoRead

NoDbCall == [op |-> "none", existed |-> FALSE, created |-> FALSE, ret |-> NoCall]

IdleAdapter ==
    /\ load_args = [cls |-> "BrokerAlpaca", id |-> None, secrets_id |-> None,
                    section |-> [env |-> None, database |-> None]]
    /\ adapter = NoAdapter
    /\ load_ret = NoCall
    /\ pg_databases = {}
    /\ db_call = NoDbCall

(***************************************************************************)
(* cast_var.                                                               *)
(***************************************************************************)
CastAlphabet == {"1", "2", "0", " ", "-", ".", "x"}
CastVars == {PyNone} \cup {PyStr(w) : w \in StringsUpTo(CastAlphabet, MaxStrLen)}

\* the arguments cast_var is called with
CastArgs ==
    [var : CastVars, cast_type : CastTypeArgs, fallback_to_original : BOOLEAN]

InitCast ==
    /\ cast_args \in CastArgs
    /\ cast_ret = NoCall
    /\ IdleMatch
    /\ IdleSecrets
    /\ IdleParse
    /\ IdleRead
    /\ IdleAdapter

CallCastVar ==
    /\ cast_ret = NoCall
    /\ cast_ret' = cast_var(cast_args.var, cast_args.cast_type,
                            cast_args.fallback_to_original)
    /\ UNCHANGED <<cast_args, match_vars, secrets_vars, parse_vars, read_vars>>
    /\ UNCHANGED adapter_vars

NextCast == CallCastVar

SpecCast == InitCast /\ [][NextCast]_vars

(***************************************************************************)
(* matches_id_criteria.                                                    *)
(***************************************************************************)
Envs == {"test", "prod"}
DbIds == {"mydb", "otherdb"}
TypeNames == BrokerAlpaca_get_type_names \cup DatabasePostgres_get_type_names

Databases ==
    [env : Envs \cup {None}, cp_db_id : DbIds \cup {None},
     type_names : {DatabasePostgres_get_type_names, BrokerAlpaca_get_type_names}]

MatchArgs ==
    [db_id : DbIds \cup {None}, env : Envs \cup {None},
     db_type : TypeNames \cup {None}]

InitMatch ==
    /\ db \in Databases
    /\ match_args \in MatchArgs
    /\ match_ret = NoCall
    /\ IdleCast
    /\ IdleSecrets
    /\ IdleParse
    /\ IdleRead
    /\ IdleAdapter

CallMatchesIdCriteria ==
    /\ match_ret = NoCall
    /\ match_ret' = matches_id_criteria(db, match_args.db_id, match_args.env,
                                        match_args.db_type)
    /\ UNCHANGED <<db, match_args, cast_vars, secrets_vars, parse_vars,
                   read_vars>>
    /\ UNCHANGED adapter_vars

NextMatch == CallMatchesIdCriteria

SpecMatch == InitMatch /\ [][NextMatch]_vars

(***************************************************************************)
(* get_matching_secrets_id.                                                *)
(***************************************************************************)
\* "broker::myid"
Sec_Plain == <<"b", "r", "o", "k", "e", "r", ":", ":", "m", "y", "i", "d">>
\* " Broker :: MyId "
Sec_Spaced == <<" ", "B", "r", "o", "k", "e", "r", " ", ":", ":", " ",
                "M", "y", "I", "d", " ">>
\* "BROKER::myid"
Sec_Upper == <<"B", "R", "O", "K", "E", "R", ":", ":", "m", "y", "i", "d">>
\* "database::myid"
Sec_OtherSubmod == <<"d", "a", "t", "a", "b", "a", "s", "e", ":", ":",
                     "m", "y", "i", "d">>
\* "broker::id2"
Sec_OtherId == <<"b", "r", "o", "k", "e", "r", ":", ":", "i", "d", "2">>
\* "broker" and "broker:myid": no separator
Sec_NoSep == <<"b", "r", "o", "k", "e", "r">>
Sec_OneColon == <<"b", "r", "o", "k", "e", "r", ":", "m", "y", "i", "d">>
\* "broker::myid::x" and "broker::::myid": two separators
Sec_TwoSeps == <<"b", "r", "o", "k", "e", "r", ":", ":", "m", "y", "i", "d",
                 ":", ":", "x">>
Sec_FourColons == <<"b", "r", "o", "k", "e", "r", ":", ":", ":", ":",
                    "m", "y", "i", "d">>
\* "broker:::myid": splits into "broker" and ":myid"
Sec_ThreeColons == <<"b", "r", "o", "k", "e", "r", ":", ":", ":",
                     "m", "y", "i", "d">>

SecretsSectionNames ==
    {Sec_Plain, Sec_Spaced, Sec_Upper, Sec_OtherSubmod, Sec_OtherId, Sec_NoSep,
     Sec_OneColon, Sec_TwoSeps, Sec_FourColons, Sec_ThreeColons}

Submods == {<<"b", "r", "o", "k", "e", "r">>,
            <<" ", "B", "R", "O", "K", "E", "R">>,
            <<"d", "a", "t", "a", "b", "a", "s", "e">>}
MainIds == {<<"m", "y", "i", "d">>, <<"M", "Y", "i", "d", " ">>,
            <<":", "m", "y", "i", "d">>, <<"i", "d", "3">>}

\* a ConfigParser holds each section name once
SecretsArgs ==
    [secrets_cp : DistinctSeqsUpTo(SecretsSectionNames, MaxSections),
     submod : Submods, main_id : MainIds]

InitSecrets ==
    /\ secrets_args \in SecretsArgs
    /\ secrets_i = 0
    /\ secrets_ret = NoCall
    /\ IdleCast
    /\ IdleMatch
    /\ IdleParse
    /\ IdleRead
    /\ IdleAdapter

\* the for loop takes the next section name and runs its body on it
SecretsLoopBody ==
    /\ secrets_ret = NoCall
    /\ secrets_i < Len(SectionNames(secrets_args.secrets_cp))
    /\ LET r == TrySection(SectionNames(secrets_args.secrets_cp)[secrets_i + 1],
                           secrets_args.submod, secrets_args.main_id)
       IN  /\ secrets_i' = secrets_i + 1
           /\ secrets_ret' = IF r.kind = "continue" THEN NoCall ELSE r
    /\ UNCHANGED <<secrets_args, cast_vars, match_vars, parse_vars, read_vars>>
    /\ UNCHANGED adapter_vars

\* the for loop is exhausted: return None
SecretsReturnNone ==
    /\ secrets_ret = NoCall
    /\ secrets_i = Len(SectionNames(secrets_args.secrets_cp))
    /\ secrets_ret' = Return(PyNone)
    /\ UNCHANGED <<secrets_args, secrets_i, cast_vars, match_vars, parse_vars,
                   read_vars>>
    /\ UNCHANGED adapter_vars

NextSecrets == SecretsLoopBody \/ SecretsReturnNone

SpecSecrets == InitSecrets /\ [][NextSecrets]_vars

(***************************************************************************)
(* parse_list_from_conf_string.                                            *)
(***************************************************************************)
Tok_1 == <<"1">>
Tok_Sp2 == <<" ", "2">>
Tok_Empty == <<>>
Tok_X == <<"x">>
Tok_Float == <<"1", ".", "5">>
Tok_Quoted == <<"'", "1", "'">>
Tok_Nested == <<"'", "'", "1", "'", "'">>
Tok_NestedMixed == <<"\"", "'", "1", "'", "\"">>
Tok_Unmatched == <<"'", "1">>
Tok_Mismatched == <<"'", "1", "\"">>
Tok_QuotedSpaces == <<" ", "'", " ", "1", " ", "'">>
Tok_Semicolon == <<"1", ";", "2">>

ConfTokens ==
    {Tok_1, Tok_Sp2, Tok_Empty, Tok_X, Tok_Float, Tok_Quoted, Tok_Nested,
     Tok_NestedMixed, Tok_Unmatched, Tok_Mismatched, Tok_QuotedSpaces,
     Tok_Semicolon}

\* all sequences of 1 to k elements of the set
RECURSIVE SeqsUpTo(_, _)
SeqsUpTo(set, k) ==
    IF k = 0 THEN {}
    ELSE LET shorter == SeqsUpTo(set, k - 1)
         IN  {<<x>> : x \in set} \cup {Append(q, x) : q \in shorter, x \in set}

\* "1, 2, , 4"
ConfStr_Example == <<"1", ",", " ", "2", ",", " ", ",", " ", "4">>

ConfStrs ==
    {PyNone, PyStr(<<>>), PyStr(ConfStr_Example)}
        \cup {PyStr(Join(toks, <<",">>)) : toks \in SeqsUpTo(ConfTokens, MaxTokens)}

Delims == {<<",">>, <<";">>, <<>>}

ParseArgs ==
    [conf_str : ConfStrs, val_type : CastTypeArgs, delim : Delims,
     strip_quotes : BOOLEAN]

InitParse ==
    /\ parse_args \in ParseArgs
    /\ val_raw_list = <<>>
    /\ parse_i = 0
    /\ list_out = <<>>
    /\ parse_ret = NoCall
    /\ IdleCast
    /\ IdleMatch
    /\ IdleSecrets
    /\ IdleRead
    /\ IdleAdapter

\* lines 175-176: nothing to parse
ParseNothing ==
    /\ parse_ret = NoCall
    /\ IsFalsy(parse_args.conf_str)
    /\ parse_ret' = Return(PyListOut)
    /\ UNCHANGED <<parse_args, val_raw_list, parse_i, list_out>>
    /\ UNCHANGED <<cast_vars, match_vars, secrets_vars, read_vars>>
    /\ UNCHANGED adapter_vars

\* lines 177-179: str.split raises ValueError on an empty separator
ParseSplit ==
    /\ parse_ret = NoCall
    /\ ~IsFalsy(parse_args.conf_str)
    /\ IF Len(parse_args.delim) = 0
       THEN /\ parse_ret' = Raise("ValueError")
            /\ UNCHANGED val_raw_list
       ELSE /\ parse_ret' = Running
            /\ val_raw_list' = Split(parse_args.conf_str.s, parse_args.delim)
    /\ UNCHANGED <<parse_args, parse_i, list_out>>
    /\ UNCHANGED <<cast_vars, match_vars, secrets_vars, read_vars>>
    /\ UNCHANGED adapter_vars

\* lines 180-188: one iteration of the for loop
ParseLoopBody ==
    /\ parse_ret = Running
    /\ parse_i < Len(val_raw_list)
    /\ list_out' = ParseElement(list_out, val_raw_list[parse_i + 1],
                                parse_args.val_type, parse_args.strip_quotes)
    /\ parse_i' = parse_i + 1
    /\ UNCHANGED <<parse_args, val_raw_list, parse_ret>>
    /\ UNCHANGED <<cast_vars, match_vars, secrets_vars, read_vars>>
    /\ UNCHANGED adapter_vars

\* line 190
ParseReturn ==
    /\ parse_ret = Running
    /\ parse_i = Len(val_raw_list)
    /\ parse_ret' = Return(PyListOut)
    /\ UNCHANGED <<parse_args, val_raw_list, parse_i, list_out>>
    /\ UNCHANGED <<cast_vars, match_vars, secrets_vars, read_vars>>
    /\ UNCHANGED adapter_vars

NextParse == ParseNothing \/ ParseSplit \/ ParseLoopBody \/ ParseReturn

SpecParse == InitParse /\ [][NextParse]_vars

(***************************************************************************)
(* read_conf_file and read_conf_file_fake_header.                          *)
(***************************************************************************)
ConfLines ==
    {Header("main"), Header("fake"), Header("DEFAULT"), Option("key", "v"),
     Option("other", "w"), Blank, Junk}

ConfFiles ==
    {[exists |-> FALSE, lines |-> <<>>], [exists |-> TRUE, lines |-> <<>>]}
        \cup {[exists |-> TRUE, lines |-> l] : l \in SeqsUpTo(ConfLines, MaxLines)}

ReadArgs ==
    [fn : {"read_conf_file", "read_conf_file_fake_header"},
     fake_section : {"fake", "env"}]

InitRead ==
    /\ conf_file \in ConfFiles
    /\ read_args \in ReadArgs
    /\ read_ret = NoRead
    /\ IdleCast
    /\ IdleMatch
    /\ IdleSecrets
    /\ IdleParse
    /\ IdleAdapter

CallReadConfFile ==
    /\ read_ret = NoRead
    /\ read_args.fn = "read_conf_file"
    /\ read_ret' = read_conf_file(conf_file)
    /\ UNCHANGED <<conf_file, read_args>>
    /\ UNCHANGED <<cast_vars, match_vars, secrets_vars, parse_vars>>
    /\ UNCHANGED adapter_vars

CallReadConfFileFakeHeader ==
    /\ read_ret = NoRead
    /\ read_args.fn = "read_conf_file_fake_header"
    /\ read_ret' = read_conf_file_fake_header(conf_file, read_args.fake_section)
    /\ UNCHANGED <<conf_file, read_args>>
    /\ UNCHANGED <<cast_vars, match_vars, secrets_vars, parse_vars>>
    /\ UNCHANGED adapter_vars

NextRead == CallReadConfFile \/ CallReadConfFileFakeHeader

SpecRead == InitRead /\ [][NextRead]_vars

(***************************************************************************)
(* Adapters: load_from_config, then create_db, drop_db and                 *)
(* check_if_db_exists on a database adapter.                               *)
(***************************************************************************)
AdapterIds == {"mydb", "otherdb"}
SecretsIds == {"database::mydb", None}
DatabaseNames == {"trading", "trading_test"}

LoadArgs ==
    [cls : {"BrokerAlpaca", "DatabasePostgres"}, id : AdapterIds,
     secrets_id : SecretsIds, section : [env : Envs, database : DatabaseNames]]

InitAdapter ==
    /\ load_args \in LoadArgs
    /\ adapter = NoAdapter
    /\ load_ret = NoCall
    /\ pg_databases \in SUBSET DatabaseNames
    /\ db_call = NoDbCall
    /\ IdleCast
    /\ IdleMatch
    /\ IdleSecrets
    /\ IdleParse
    /\ IdleRead

BrokerAlpacaLoadFromConfig ==
    /\ load_ret = NoCall
    /\ load_args.cls = "BrokerAlpaca"
    /\ adapter' = BrokerAlpaca_load_from_config(load_args.id, load_args.secrets_id)
    /\ load_ret' = Return(PyNone)
    /\ UNCHANGED <<load_args, pg_databases, db_call>>
    /\ UNCHANGED <<cast_vars, match_vars, secrets_vars, parse_vars, read_vars>>

DatabasePostgresLoadFromConfig ==
    /\ load_ret = NoCall
    /\ load_args.cls = "DatabasePostgres"
    /\ adapter' = DatabasePostgres_load_from_config(load_args.section,
                      load_args.id, load_args.secrets_id)
    /\ load_ret' = Return(PyNone)
    /\ UNCHANGED <<load_args, pg_databases, db_call>>
    /\ UNCHANGED <<cast_vars, match_vars, secrets_vars, parse_vars, read_vars>>

CreateDb ==
    /\ adapter.kind = "database"
    /\ LET r == create_db(adapter, pg_databases)
       IN  /\ pg_databases' = r.databases
           /\ db_call' = [op |-> "create_db",
                          existed |-> check_if_db_exists(adapter, pg_databases),
                          created |-> r.created, ret |-> r.ret]
    /\ UNCHANGED <<load_args, adapter, load_ret>>
    /\ UNCHANGED <<cast_vars, match_vars, secrets_vars, parse_vars, read_vars>>

DropDb ==
    /\ adapter.kind = "database"
    /\ LET r == drop_db(adapter, pg_databases)
       IN  /\ pg_databases' = r.databases
           /\ db_call' = [op |-> "drop_db",
                          existed |-> check_if_db_exists(adapter, pg_databases),
                          created |-> r.created, ret |-> r.ret]
    /\ UNCHANGED <<load_args, adapter, load_ret>>
    /\ UNCHANGED <<cast_vars, match_vars, secrets_vars, parse_vars, read_vars>>

CheckIfDbExists ==
    /\ adapter.kind = "database"
    /\ db_call' = [op |-> "check_if_db_exists",
                   existed |-> check_if_db_exists(adapter, pg_databases),
                   created |-> FALSE,
                   ret |-> Return(PyBool(check_if_db_exists(adapter, pg_databases)))]
    /\ UNCHANGED <<load_args, adapter, load_ret, pg_databases>>
    /\ UNCHANGED <<cast_vars, match_vars, secrets_vars, parse_vars, read_vars>>

NextAdapter ==
    \/ BrokerAlpacaLoadFromConfig
    \/ DatabasePostgresLoadFromConfig
    \/ CreateDb
    \/ DropDb
    \/ CheckIfDbExists

SpecAdapter == InitAdapter /\ [][NextAdapter]_vars

(***************************************************************************)
(* Properties of cast_var.                                                 *)
(***************************************************************************)
CastDone == cast_ret.kind # "idle"

\* C1: cast_var with a cast type that is not a member of CastType fails with
\* TypeError for every value, whether fallback_to_original is false or true.
C1_UnsupportedKindAlwaysFails ==
    (CastDone /\ cast_args.cast_type \notin CastType)
        => cast_ret = Raise("TypeError")

\* the conversion a recognized cast type stands for
Conversion(var, cast_type) ==
    CASE cast_type = CastType_INT -> int(var)
      [] cast_type = CastType_FLOAT -> float(var)
      [] cast_type = CastType_STRING -> str(var)

\* C2: for a recognized cast type, a successful conversion is returned
\* whatever the flag; a failed conversion raises (ValueError for a string)
\* when fallback_to_original is false and returns the original value
\* unchanged when it is true.
C2_CastOutcome ==
    (CastDone /\ cast_args.cast_type \in CastType) =>
        LET conv == Conversion(cast_args.var, cast_args.cast_type)
        IN  IF conv.kind = "return" THEN cast_ret = conv
            ELSE IF cast_args.fallback_to_original
            THEN cast_ret = Return(cast_args.var)
            ELSE /\ cast_ret.kind = "raise"
                 /\ cast_ret.exc \in {"ValueError", "TypeError"}
                 /\ cast_args.var.t = "str" => cast_ret.exc = "ValueError"

\* int("x") fails and the fallback hands "x" back
C2_Witness ==
    /\ cast_args = [var |-> PyStr(<<"x">>), cast_type |-> CastType_INT,
                    fallback_to_original |-> TRUE]
    /\ cast_ret = Return(PyStr(<<"x">>))

(***************************************************************************)
(* Properties of matches_id_criteria.                                      *)
(***************************************************************************)
MatchDone == match_ret.kind # "idle"

\* C3: matches_id_criteria fails with AssertionError whenever db_id is None,
\* for every instance and every env and db_type; it returns neither True nor
\* False.
C3_NoneIdAsserts ==
    (MatchDone /\ match_args.db_id = None) => match_ret = Raise("AssertionError")

\* the true wildcard query against an instance without an id
C3_Witness ==
    /\ match_args = [db_id |-> None, env |-> None, db_type |-> None]
    /\ db.cp_db_id = None
    /\ match_ret = Raise("AssertionError")

\* C4: for a db_id other than None, matches_id_criteria returns True exactly
\* when db_id is the instance's id, env is None or the instance's env, and
\* db_type is None or one of the instance's type names; False otherwise.
C4_MatchesExactly ==
    (MatchDone /\ match_args.db_id # None) =>
        match_ret = Return(PyBool(
            /\ match_args.db_id = db.cp_db_id
            /\ match_args.env \in {None, db.env}
            /\ match_args.db_type \in {None} \cup db.type_names))

\* the id and the env match, and the type is not one of the instance's
C4_Witness ==
    /\ match_args = [db_id |-> "mydb", env |-> "test", db_type |-> "alpaca"]
    /\ db = [env |-> "test", cp_db_id |-> "mydb",
             type_names |-> DatabasePostgres_get_type_names]
    /\ match_ret = Return(PyBool(FALSE))

(***************************************************************************)
(* Properties of get_matching_secrets_id.                                  *)
(***************************************************************************)
TrimLower(s) == Strip(Lower(s))

\* where the leftmost separator of a section name starts, 0 if there is none
FirstSeparator(name) ==
    IF \E p \in 1..Len(name) : StartsWithAt(name, SecretsSeparator, p)
    THEN CHOOSE p \in 1..Len(name) :
            /\ StartsWithAt(name, SecretsSeparator, p)
            /\ \A q \in 1..(p - 1) : ~StartsWithAt(name, SecretsSeparator, q)
    ELSE 0

SubsystemOf(name) == SubSeq(name, 1, FirstSeparator(name) - 1)
IdOf(name) == SubSeq(name, FirstSeparator(name) + 2, Len(name))

\* the name is 'S::I': one separator, none left in I
IsComposite(name) ==
    /\ FirstSeparator(name) # 0
    /\ \A p \in 1..Len(IdOf(name)) : ~StartsWithAt(IdOf(name), SecretsSeparator, p)

\* the section name 'S::I' answers the query
AnswersQuery(name) ==
    /\ IsComposite(name)
    /\ TrimLower(SubsystemOf(name)) = TrimLower(secrets_args.submod)
    /\ TrimLower(IdOf(name)) = TrimLower(secrets_args.main_id)

IteratedNames == SectionNames(secrets_args.secrets_cp)

\* C5: a section name 'S::I' taken by the loop is returned as the match
\* exactly when trim(lower(S)) = trim(lower(submod)) and
\* trim(lower(I)) = trim(lower(main_id)).
C5_CaseAndWhitespaceInsensitive ==
    \A k \in 1..secrets_i :
        (IsComposite(IteratedNames[k]) /\ AnswersQuery(IteratedNames[k]))
            <=> (k = secrets_i /\ secrets_ret = Return(PyStr(IteratedNames[k])))

\* section " Broker :: MyId " matches the query ("broker", "myid")
C5_Witness ==
    /\ secrets_args.submod = <<"b", "r", "o", "k", "e", "r">>
    /\ secrets_args.main_id = <<"m", "y", "i", "d">>
    /\ secrets_ret = Return(PyStr(Sec_Spaced))

\* C6: a section name that does not split on '::' into exactly two parts
\* never makes the call fail: it is skipped and the loop goes on to the
\* remaining names; None is returned only once every name has been taken,
\* and is the result when no well-formed name matches.
C6_MalformedNamesSkipped ==
    /\ secrets_ret.kind # "raise"
    /\ \A k \in 1..secrets_i :
          ~IsComposite(IteratedNames[k]) =>
              \/ k < secrets_i
              \/ secrets_ret = NoCall
              \/ secrets_ret = Return(PyNone)
    /\ secrets_ret = Return(PyNone) => secrets_i = Len(IteratedNames)
    /\ (secrets_ret.kind = "return"
            /\ \A k \in 1..Len(IteratedNames) : ~AnswersQuery(IteratedNames[k]))
          => secrets_ret = Return(PyNone)
    /\ (secrets_ret = Return(PyNone))
          => \A k \in 1..Len(IteratedNames) : ~AnswersQuery(IteratedNames[k])

\* two malformed names (the default section's and one with two separators)
\* come before the matching one, which is still found
C6_Witness ==
    /\ secrets_args.secrets_cp = <<Sec_TwoSeps, Sec_Plain>>
    /\ secrets_ret = Return(PyStr(Sec_Plain))

(***************************************************************************)
(* Properties of parse_list_from_conf_string.                              *)
(***************************************************************************)
\* the delimiter-separated tokens the loop has taken so far
TokensTaken ==
    SubSeq(Split(parse_args.conf_str.s, parse_args.delim), 1, parse_i)

\* the cast values, in order, of those of the tokens whose cast succeeds
CastSurvivors(toks, val_type) ==
    LET cast(i) == cast_var(PyStr(toks[i]), val_type, FALSE)
        kept == SelectSeq([i \in 1..Len(toks) |-> i],
                          LAMBDA i : cast(i).kind = "return")
    IN  [j \in 1..Len(kept) |-> cast(kept[j]).val]

Trimmed(toks) == [i \in 1..Len(toks) |-> Strip(toks[i])]

\* C7: without strip_quotes and with a delimiter to split on, list_out is,
\* in input order, exactly the cast values of the whitespace-trimmed tokens
\* whose cast succeeds; a token whose cast fails is left out and raises
\* nothing; all tokens have been taken when the list is returned.
C7_SurvivorsInOrder ==
    (Len(parse_args.delim) > 0) =>
        /\ parse_ret.kind # "raise"
        /\ (parse_ret.kind = "return" /\ ~IsFalsy(parse_args.conf_str))
              => parse_i = Len(Split(parse_args.conf_str.s, parse_args.delim))
        /\ (~parse_args.strip_quotes /\ parse_ret.kind \in {"running", "return"})
              => list_out = CastSurvivors(Trimmed(TokensTaken), parse_args.val_type)

\* parse_list_from_conf_string("1, 2, , 4", CastType.INT) = [1, 2, 4]
C7_Witness ==
    /\ parse_args = [conf_str |-> PyStr(ConfStr_Example), val_type |-> CastType_INT,
                     delim |-> <<",">>, strip_quotes |-> FALSE]
    /\ parse_ret = Return(PyListOut)
    /\ list_out = <<PyInt(1), PyInt(2), PyInt(4)>>

\* C8: for an empty or None conf_str the call returns an empty list without
\* error, for every val_type, delim and strip_quotes.
C8_EmptyInputEmptyList ==
    (parse_args.conf_str \in {PyNone, PyStr(<<>>)} /\ parse_ret.kind # "idle")
        => (parse_ret = Return(PyListOut) /\ list_out = <<>>)

\* the empty string, a delimiter split would reject, and a target str
C8_Witness ==
    /\ parse_args = [conf_str |-> PyStr(<<>>), val_type |-> CastType_STRING,
                     delim |-> <<>>, strip_quotes |-> TRUE]
    /\ parse_ret = Return(PyListOut)
    /\ list_out = <<>>

\* a token without one layer of matching quotes: the same quote character
\* at both ends is removed once, anything else is left as it is
OneLayerRemoved(tok) ==
    IF Len(tok) >= 2 /\ tok[1] = tok[Len(tok)] /\ tok[1] \in QuoteChars
    THEN SubSeq(tok, 2, Len(tok) - 1)
    ELSE tok

\* a token without its leading and trailing quote characters: what is left
\* between the first and the last character that is not a quote
AllQuotesRemoved(tok) ==
    IF \A i \in 1..Len(tok) : tok[i] \in QuoteChars THEN <<>>
    ELSE LET first == CHOOSE i \in 1..Len(tok) :
                         /\ tok[i] \notin QuoteChars
                         /\ \A j \in 1..(i - 1) : tok[j] \in QuoteChars
             last == CHOOSE i \in 1..Len(tok) :
                         /\ tok[i] \notin QuoteChars
                         /\ \A j \in (i + 1)..Len(tok) : tok[j] \in QuoteChars
         IN  [k \in 1..(last - first + 1) |-> tok[first + k - 1]]

QuotedCallTakes ==
    /\ parse_args.strip_quotes
    /\ Len(parse_args.delim) > 0
    /\ parse_ret.kind \in {"running", "return"}

\* C10 as stated: with strip_quotes, exactly one layer of matching quotes is
\* removed from each trimmed token before casting; nested quotes keep their
\* inner layer, unmatched and mismatched quotes stay.
C10_OneMatchingLayer ==
    QuotedCallTakes =>
        list_out = CastSurvivors(
            [i \in 1..parse_i |-> Strip(OneLayerRemoved(Strip(TokensTaken[i])))],
            parse_args.val_type)

\* C10 as amended: with strip_quotes, every leading and trailing quote
\* character is removed from each trimmed token, matching or not and however
\* many, and the rest is trimmed again before casting.
C10_AllQuotesStripped ==
    QuotedCallTakes =>
        list_out = CastSurvivors(
            [i \in 1..parse_i |-> Strip(AllQuotesRemoved(Strip(TokensTaken[i])))],
            parse_args.val_type)

\* nested quotes and a mismatched pair both come out as the bare 1
C10_Witness ==
    /\ parse_args = [conf_str |-> PyStr(Join(<<Tok_Nested, Tok_Mismatched>>, <<",">>)),
                     val_type |-> CastType_INT, delim |-> <<",">>,
                     strip_quotes |-> TRUE]
    /\ parse_ret = Return(PyListOut)
    /\ list_out = <<PyInt(1), PyInt(1)>>

(***************************************************************************)
(* Properties of read_conf_file and read_conf_file_fake_header.            *)
(***************************************************************************)
\* C9: read_conf_file_fake_header behaves as read_conf_file does on the file
\* with the fake header put before its first line; like read_conf_file, it
\* returns a parser without sections when the file does not exist.
C9_FakeHeaderReadsLikeRead ==
    (read_ret.kind # "idle" /\ read_args.fn = "read_conf_file_fake_header") =>
        IF conf_file.exists
        THEN read_ret = read_conf_file(
                 [exists |-> TRUE,
                  lines |-> <<Header(read_args.fake_section)>> \o conf_file.lines])
        ELSE read_ret = read_conf_file(conf_file)

(***************************************************************************)
(* Properties of the adapters.                                             *)
(***************************************************************************)
\* C11: the instance a successful load_from_config returns for section id X
\* in environment E carries X as its id and E as its env, so that
\* matches_id_criteria(X) and matches_id_criteria(X, E, t), for every t of
\* its type names, return True; for the broker as for the database.
C11_LoadedAdapterMatchesItsId ==
    (load_ret.kind = "return") =>
        /\ adapter.cp_db_id = load_args.id
        /\ adapter.env = load_args.section.env
        /\ matches_id_criteria(adapter, load_args.id, None, None)
               = Return(PyBool(TRUE))
        /\ \A t \in adapter.type_names :
               matches_id_criteria(adapter, load_args.id,
                                   load_args.section.env, t)
                   = Return(PyBool(TRUE))

\* C12: after create_db the database exists and after drop_db it does not,
\* whatever calls came before; create_db on an existing database creates
\* nothing and succeeds; check_if_db_exists tells whether it exists.
C12_CreateAndDropDb ==
    /\ (db_call.op = "create_db") =>
          /\ check_if_db_exists(adapter, pg_databases)
          /\ db_call.ret = Return(PyNone)
          /\ db_call.created = ~db_call.existed
    /\ (db_call.op = "drop_db") =>
          /\ ~check_if_db_exists(adapter, pg_databases)
          /\ db_call.ret = Return(PyNone)
    /\ (db_call.op = "check_if_db_exists") =>
          db_call.ret = Return(PyBool(adapter.database \in pg_databases))

\* create_db on a database that exists already
C12_Witness ==
    /\ db_call.op = "create_db"
    /\ db_call.existed
    /\ ~db_call.created
    /\ adapter.database \in pg_databases

(***************************************************************************)
(* Further properties of get_matching_secrets_id.                          *)
(***************************************************************************)
SomeNameAnswers == \E k \in 1..Len(IteratedNames) : AnswersQuery(IteratedNames[k])

\* the place, in iteration order, of the first section name that answers
FirstAnswer ==
    CHOOSE k \in 1..Len(IteratedNames) :
        /\ AnswersQuery(IteratedNames[k])
        /\ \A j \in 1..(k - 1) : ~AnswersQuery(IteratedNames[j])

\* C13: when several section names answer the query, the one that comes
\* first in iteration order is returned, exactly as it is stored (neither
\* trimmed nor lowered), and the loop takes no name after it.
C13_FirstMatchAsStored ==
    SomeNameAnswers =>
        /\ secrets_i <= FirstAnswer
        /\ secrets_ret.kind = "return" =>
              /\ secrets_i = FirstAnswer
              /\ secrets_ret = Return(PyStr(IteratedNames[FirstAnswer]))

\* " Broker :: MyId " and "broker::myid" both answer; the first is returned,
\* spaces and capitals included, after the default section and itself
C13_Witness ==
    /\ secrets_args = [secrets_cp |-> <<Sec_Spaced, Sec_Plain>>,
                       submod |-> <<"b", "r", "o", "k", "e", "r">>,
                       main_id |-> <<"m", "y", "i", "d">>]
    /\ secrets_i = 2
    /\ secrets_ret = Return(PyStr(Sec_Spaced))

(***************************************************************************)
(* Further properties of parse_list_from_conf_string.                      *)
(***************************************************************************)
RECURSIVE CountFrom(_, _, _)
\* the occurrences of the delimiter from place i on, counted left to right
\* without overlap
CountFrom(s, sep, i) ==
    IF i > Len(s) THEN 0
    ELSE IF StartsWithAt(s, sep, i) THEN 1 + CountFrom(s, sep, i + Len(sep))
    ELSE CountFrom(s, sep, i + 1)

\* C14: for CastType.STRING, a non-empty conf_str and a delimiter to split
\* on, no token is dropped: the returned list has one element more than the
\* delimiter occurs, each a str, and an empty (or blank) token is there as
\* the empty string.
C14_StringKeepsEveryToken ==
    (/\ parse_args.val_type = CastType_STRING
     /\ Len(parse_args.delim) > 0
     /\ parse_args.conf_str.t = "str"
     /\ Len(parse_args.conf_str.s) > 0
     /\ parse_ret.kind # "idle") =>
        /\ parse_ret.kind # "raise"
        /\ Len(list_out) = parse_i
        /\ parse_ret.kind = "return" =>
              Len(list_out) = CountFrom(parse_args.conf_str.s, parse_args.delim, 1) + 1
        /\ \A i \in 1..Len(list_out) :
              /\ list_out[i].t = "str"
              /\ Len(Strip(Split(parse_args.conf_str.s, parse_args.delim)[i])) = 0
                    => list_out[i] = PyStr(<<>>)

\* "1," : the empty token after the trailing delimiter is in the list
C14_Witness ==
    /\ parse_args = [conf_str |-> PyStr(<<"1", ",">>), val_type |-> CastType_STRING,
                     delim |-> <<",">>, strip_quotes |-> FALSE]
    /\ parse_ret = Return(PyListOut)
    /\ list_out = <<PyStr(<<"1">>), PyStr(<<>>)>>

====
